---- MODULE Spec2Model ----
(***************************************************************************)
(* Mergington High School API (src/src/app.py).                            *)
(*                                                                         *)
(* The state is the module-level state of app.py (activities_collection,   *)
(* the mutable SAMPLE_ACTIVITIES dictionary), the MongoDB collection the   *)
(* process talks to, and the position of every signup handler that is      *)
(* suspended at an await.  A step of the model is the code a handler runs  *)
(* between two suspension points of the event loop.                        *)
(*                                                                         *)
(* The sample data is scaled down: two of the nine sample activities, each *)
(* with its two sample participants and OpenSlots free places.             *)
(***************************************************************************)
EXTENDS Integers, Sequences, FiniteSets, Bags, TLC

(* ------------------------------ bounds -------------------------------- *)

\* free places of a sample activity (max_participants - len(participants))
OpenSlots == 1

\* signup handlers that can be in flight at once
NumRequests == 2

\* the success counter of a (activity, email) pair stops counting here
SuccessCap == 2

(* ------------------------------ inputs -------------------------------- *)

NewEmailPool ==
  << "new1@mergington.edu", "new2@mergington.edu",
     "new3@mergington.edu", "new4@mergington.edu" >>

\* emails no sample activity contains: one more than the free places
NewEmails == { NewEmailPool[i] : i \in 1..(OpenSlots + 1) }

Emails == NewEmails

SampleOrder == << "Chess Club", "Programming Class" >>

ActivityNames == { "Chess Club", "Programming Class", "Knitting Club" }

\* the signup requests clients send: any of the emails for the chess club, two
\* emails for an activity that does not exist, one for the other sample activity
SignupInputs ==
  ({ "Chess Club" } \X Emails)
    \cup ({ "Knitting Club" } \X { NewEmailPool[1], NewEmailPool[2] })
    \cup ({ "Programming Class" } \X { NewEmailPool[1] })

(* --------------------------- program data ----------------------------- *)

None == "None"
Collection == "activities"

SampleData ==
  [ n \in { SampleOrder[i] : i \in 1..Len(SampleOrder) } |->
      IF n = "Chess Club"
      THEN [ description |-> "Learn strategies and compete in chess tournaments",
             schedule |-> "Fridays, 3:30 PM - 5:00 PM",
             max_participants |-> 2 + OpenSlots,
             participants |-> << "michael@mergington.edu", "daniel@mergington.edu" >> ]
      ELSE [ description |-> "Learn programming fundamentals and build software projects",
             schedule |-> "Tuesdays and Thursdays, 3:30 PM - 4:30 PM",
             max_participants |-> 2 + OpenSlots,
             participants |-> << "emma@mergington.edu", "sophia@mergington.edu" >> ] ]

VARIABLES
  phase,                 \* "loaded" (module imported), "running", "stopped"
  activities_collection, \* None, or the handle of the MongoDB collection
  SAMPLE_ACTIVITIES,     \* the module-level dictionary, mutated in fallback mode
  db,                    \* the documents of the MongoDB collection, in order
  suspended,             \* the bag of signup handlers suspended at the write's
                         \* await, each with its arguments and locals
  response,              \* the HTTP response the step just taken sent, if any
  handled,               \* the request that response answers (history)
  successCount           \* per (activity, email): success responses so far (history)

vars ==
  << phase, activities_collection, SAMPLE_ACTIVITIES, db, suspended,
     response, handled, successCount >>

(* ------------------------------ helpers ------------------------------- *)

NoActivities == [ n \in {} |-> 0 ]

NoResponse ==
  [ status |-> 0, detail |-> "", message |-> << >>, activities |-> NoActivities,
    location |-> "" ]

NotHandled ==
  [ op |-> "none", name |-> "", email |-> "", dbError |-> FALSE,
    memberAtIssue |-> FALSE ]

Contains(list, x) == \E i \in 1..Len(list) : list[i] = x

\* doc = {"name": name, **data}
MakeDoc(name, data) ==
  [ name |-> name, description |-> data.description, schedule |-> data.schedule,
    max_participants |-> data.max_participants, participants |-> data.participants ]

\* activity.pop("name"); activity.pop("_id", None)
StripName(doc) ==
  [ description |-> doc.description, schedule |-> doc.schedule,
    max_participants |-> doc.max_participants, participants |-> doc.participants ]

\* activities_docs of startup_event: one document per sample activity
SampleDocs == [ i \in 1..Len(SampleOrder) |-> MakeDoc(SampleOrder[i], SampleData[SampleOrder[i]]) ]

\* the dictionary get_activities_from_db builds from the documents found
ToDict(docs) ==
  [ n \in { docs[i].name : i \in 1..Len(docs) } |->
      StripName(docs[CHOOSE i \in 1..Len(docs) :
                       /\ docs[i].name = n
                       /\ \A j \in (i + 1)..Len(docs) : docs[j].name # n]) ]

(* ------------------------- the Activity Store -------------------------- *)

\* get_activities_from_db awaits the cursor only when a collection is set; with
\* activities_collection None the coroutine returns without ever suspending, so
\* the handler awaiting it runs on to its end in the same turn of the event loop.
SuspendsAlways == TRUE

Suspends == activities_collection # None

\* get_activities_from_db; ok: find({}).to_list() returned (it raised otherwise)
get_activities_from_db(ok) ==
  IF activities_collection # None
  THEN IF ok THEN ToDict(db) ELSE SAMPLE_ACTIVITIES
  ELSE SAMPLE_ACTIVITIES

FirstMatch(docs, name) ==
  CHOOSE i \in 1..Len(docs) :
    /\ docs[i].name = name
    /\ \A j \in 1..(i - 1) : docs[j].name # name

\* as update_one, with $push in place of $addToSet
update_one_push(docs, name, email) ==
  IF \A i \in 1..Len(docs) : docs[i].name # name
  THEN [ docs |-> docs, matched_count |-> 0, modified_count |-> 0 ]
  ELSE [ docs |-> [ docs EXCEPT ![FirstMatch(docs, name)].participants = Append(@, email) ],
         matched_count |-> 1, modified_count |-> 1 ]

\* as update_one, with the capacity made part of the filter
update_one_guarded(docs, name, email) ==
  IF \A i \in 1..Len(docs) :
       docs[i].name # name \/ Len(docs[i].participants) >= docs[i].max_participants
  THEN [ docs |-> docs, matched_count |-> 0, modified_count |-> 0 ]
  ELSE LET i == CHOOSE k \in 1..Len(docs) :
                  /\ docs[k].name = name
                  /\ Len(docs[k].participants) < docs[k].max_participants
       IN IF Contains(docs[i].participants, email)
          THEN [ docs |-> docs, matched_count |-> 1, modified_count |-> 0 ]
          ELSE [ docs |-> [ docs EXCEPT ![i].participants = Append(@, email) ],
                 matched_count |-> 1, modified_count |-> 1 ]

\* update_one({"name": name}, {"$addToSet": {"participants": email}}) on the server
update_one(docs, name, email) ==
  IF \A i \in 1..Len(docs) : docs[i].name # name
  THEN [ docs |-> docs, matched_count |-> 0, modified_count |-> 0 ]
  ELSE LET i == FirstMatch(docs, name)
       IN IF Contains(docs[i].participants, email)
          THEN [ docs |-> docs, matched_count |-> 1, modified_count |-> 0 ]
          ELSE [ docs |-> [ docs EXCEPT ![i].participants = Append(@, email) ],
                 matched_count |-> 1, modified_count |-> 1 ]

\* as update_activity_in_db, returning result.matched_count > 0
update_activity_in_db_matched(activity_name, email, ok) ==
  IF activities_collection # None
  THEN IF ok
       THEN LET result == update_one(db, activity_name, email)
            IN [ success |-> result.matched_count > 0, db |-> result.docs,
                 mem |-> SAMPLE_ACTIVITIES, dbError |-> FALSE ]
       ELSE [ success |-> FALSE, db |-> db, mem |-> SAMPLE_ACTIVITIES, dbError |-> TRUE ]
  ELSE IF /\ activity_name \in DOMAIN SAMPLE_ACTIVITIES
          /\ ~Contains(SAMPLE_ACTIVITIES[activity_name].participants, email)
       THEN [ success |-> TRUE, db |-> db,
              mem |-> [ SAMPLE_ACTIVITIES EXCEPT ![activity_name].participants = Append(@, email) ],
              dbError |-> FALSE ]
       ELSE [ success |-> FALSE, db |-> db, mem |-> SAMPLE_ACTIVITIES, dbError |-> FALSE ]

\* update_activity_in_db; ok: update_one returned (it raised otherwise).
\* The result is whether a change was made, and the two stores afterwards.
update_activity_in_db(activity_name, email, ok) ==
  IF activities_collection # None
  THEN IF ok
       THEN LET result == update_one(db, activity_name, email)
            IN [ success |-> result.modified_count > 0, db |-> result.docs,
                 mem |-> SAMPLE_ACTIVITIES, dbError |-> FALSE ]
       ELSE [ success |-> FALSE, db |-> db, mem |-> SAMPLE_ACTIVITIES, dbError |-> TRUE ]
  ELSE IF /\ activity_name \in DOMAIN SAMPLE_ACTIVITIES
          /\ ~Contains(SAMPLE_ACTIVITIES[activity_name].participants, email)
       THEN [ success |-> TRUE, db |-> db,
              mem |-> [ SAMPLE_ACTIVITIES EXCEPT ![activity_name].participants = Append(@, email) ],
              dbError |-> FALSE ]
       ELSE [ success |-> FALSE, db |-> db, mem |-> SAMPLE_ACTIVITIES, dbError |-> FALSE ]

(* ------------------------- the Signup Service -------------------------- *)

HttpError(status, detail) == [ NoResponse EXCEPT !.status = status, !.detail = detail ]

\* {"message": f"Signed up {email} for {activity_name}"}
SignedUp(activity_name, email) ==
  [ NoResponse EXCEPT !.status = 200,
                      !.message = << "Signed up ", email, " for ", activity_name >> ]

Unchanged(resp) ==
  [ response |-> resp, db |-> db, mem |-> SAMPLE_ACTIVITIES, dbError |-> FALSE ]

\* as signup_for_activity, with the capacity check before the duplicate check
signup_for_activity_full_first(activities, activity_name, email, ok) ==
  IF activity_name \notin DOMAIN activities
  THEN Unchanged(HttpError(404, "Activity not found"))
  ELSE IF Len(activities[activity_name].participants)
            >= activities[activity_name].max_participants
  THEN Unchanged(HttpError(400, "Activity is full"))
  ELSE IF Contains(activities[activity_name].participants, email)
  THEN Unchanged(HttpError(400, "Student is already signed up"))
  ELSE LET upd == update_activity_in_db(activity_name, email, ok)
       IN [ response |-> IF upd.success
                         THEN SignedUp(activity_name, email)
                         ELSE HttpError(500, "Failed to sign up for activity"),
            db |-> upd.db, mem |-> upd.mem, dbError |-> upd.dbError ]

\* signup_for_activity from the point where the activities have been fetched:
\* the response, the two stores afterwards, and whether the database call raised
signup_for_activity(activities, activity_name, email, ok) ==
  IF activity_name \notin DOMAIN activities
  THEN Unchanged(HttpError(404, "Activity not found"))
  ELSE IF Contains(activities[activity_name].participants, email)
  THEN Unchanged(HttpError(400, "Student is already signed up"))
  ELSE IF Len(activities[activity_name].participants)
            >= activities[activity_name].max_participants
  THEN Unchanged(HttpError(400, "Activity is full"))
  ELSE LET upd == update_activity_in_db(activity_name, email, ok)
       IN [ response |-> IF upd.success
                         THEN SignedUp(activity_name, email)
                         ELSE HttpError(500, "Failed to sign up for activity"),
            db |-> upd.db, mem |-> upd.mem, dbError |-> upd.dbError ]

(* ------------------------------ history -------------------------------- *)

\* the entries of the fetched dictionary the handler goes on to read:
\* activity_name in activities, activities[activity_name]
Live(activities, activity_name) ==
  [ n \in DOMAIN activities \cap { activity_name } |-> activities[n] ]

\* the store the running process writes signups to
Store == IF activities_collection # None THEN ToDict(db) ELSE SAMPLE_ACTIVITIES

IsMember(store, activity_name, email) ==
  /\ activity_name \in DOMAIN store
  /\ Contains(store[activity_name].participants, email)

Count(store, activity_name) == Len(store[activity_name].participants)

Bump(counts, activity_name, email) ==
  [ counts EXCEPT ![<< activity_name, email >>] = IF @ < SuccessCap THEN @ + 1 ELSE @ ]

(* ------------------------------- actions ------------------------------- *)

Init ==
  /\ phase = "loaded"
  /\ activities_collection = None
  /\ SAMPLE_ACTIVITIES = SampleData
  /\ db \in { << >>, SampleDocs }
  /\ suspended = EmptyBag
  /\ response = NoResponse
  /\ handled = NotHandled
  /\ successCount = [ p \in ActivityNames \X Emails |-> 0 ]

\* startup_event; outcome: which awaited call, if any, raised or timed out
startup_event(outcome) ==
  /\ phase = "loaded"
  /\ phase' = "running"
  /\ IF outcome = "ping_failed" \/ outcome = "count_failed"
     THEN /\ activities_collection' = None
          /\ db' = db
     ELSE IF Len(db) = 0
          THEN IF outcome = "insert_failed"
               THEN /\ activities_collection' = None
                    /\ db' = db
               ELSE /\ activities_collection' = Collection
                    /\ db' = db \o SampleDocs
          ELSE /\ activities_collection' = Collection
               /\ db' = db
  /\ UNCHANGED << SAMPLE_ACTIVITIES, suspended, response, handled, successCount >>

\* shutdown_event: the process stops and its handlers with it
shutdown_event ==
  /\ phase = "running"
  /\ phase' = "stopped"
  /\ suspended' = EmptyBag
  /\ response' = NoResponse
  /\ handled' = NotHandled
  /\ UNCHANGED << activities_collection, SAMPLE_ACTIVITIES, db, successCount >>

\* GET /
root ==
  /\ phase = "running"
  /\ response' = [ NoResponse EXCEPT !.status = 307, !.location = "/static/index.html" ]
  /\ handled' = [ NotHandled EXCEPT !.op = "root" ]
  /\ UNCHANGED << phase, activities_collection, SAMPLE_ACTIVITIES, db, suspended, successCount >>

\* GET /activities
get_activities(ok) ==
  /\ phase = "running"
  /\ response' = [ NoResponse EXCEPT !.status = 200,
                                     !.activities = get_activities_from_db(ok) ]
  /\ handled' = [ NotHandled EXCEPT !.op = "list",
                                    !.dbError = (activities_collection # None /\ ~ok) ]
  /\ UNCHANGED << phase, activities_collection, SAMPLE_ACTIVITIES, db, suspended, successCount >>

\* the rest of signup_for_activity once the activities are there, up to its response
Finish(activities, activity_name, email, fetchFailed, memberAtIssue, ok) ==
  LET res == signup_for_activity(activities, activity_name, email, ok)
  IN /\ response' = res.response
     /\ db' = res.db
     /\ SAMPLE_ACTIVITIES' = res.mem
     /\ handled' = [ op |-> "signup", name |-> activity_name, email |-> email,
                     dbError |-> (fetchFailed \/ res.dbError),
                     memberAtIssue |-> memberAtIssue ]
     /\ successCount' = IF res.response.status = 200
                        THEN Bump(successCount, activity_name, email)
                        ELSE successCount
     /\ UNCHANGED << phase, activities_collection >>

\* POST /activities/{activity_name}/signup, from the request to the first
\* suspension point (or to the response, when the handler never suspends)
SignupFetch(activity_name, email, ok) ==
  /\ phase = "running"
  /\ BagCardinality(suspended) < NumRequests
  /\ LET activities == get_activities_from_db(ok)
         fetchFailed == activities_collection # None /\ ~ok
         memberAtIssue == IsMember(Store, activity_name, email)
     IN IF Suspends
        THEN /\ suspended' = suspended (+) SetToBag({
                   [ name |-> activity_name, email |-> email,
                     activities |-> Live(activities, activity_name),
                     fetchFailed |-> fetchFailed,
                     memberAtIssue |-> memberAtIssue ] })
             /\ response' = NoResponse
             /\ handled' = NotHandled
             /\ UNCHANGED << phase, activities_collection, SAMPLE_ACTIVITIES, db,
                             successCount >>
        ELSE /\ Finish(activities, activity_name, email, fetchFailed, memberAtIssue, ok)
             /\ suspended' = suspended

\* the same handler resumed with the activities it fetched: checks, write, response
SignupWrite(h, ok) ==
  /\ phase = "running"
  /\ BagIn(h, suspended)
  /\ Finish(h.activities, h.name, h.email, h.fetchFailed, h.memberAtIssue, ok)
  /\ suspended' = suspended (-) SetToBag({ h })

Next ==
  \/ \E outcome \in { "ok", "ping_failed", "count_failed", "insert_failed" } :
       startup_event(outcome)
  \/ shutdown_event
  \/ root
  \/ \E ok \in BOOLEAN : get_activities(ok)
  \/ \E in \in SignupInputs, ok \in BOOLEAN : SignupFetch(in[1], in[2], ok)
  \/ \E h \in BagToSet(suspended), ok \in BOOLEAN : SignupWrite(h, ok)

Spec == Init /\ [][Next]_vars

(* ------------------------------- claims -------------------------------- *)

NoDuplicates(list) ==
  \A i, j \in 1..Len(list) : i # j => list[i] # list[j]

WithinCapacity(store) ==
  \A n \in DOMAIN store : Count(store, n) <= store[n].max_participants

\* the suspended handler the step being taken resumes and ends
Resumed == CHOOSE h \in BagToSet(suspended) : suspended' = suspended (-) SetToBag({ h })

\* the activities a signup answered in this step had fetched
Fetched == IF suspended' # suspended THEN Resumed.activities ELSE SAMPLE_ACTIVITIES

OthersUnchanged(activity_name) ==
  \A n \in DOMAIN Store : n # activity_name => (n \in DOMAIN Store' /\ Store'[n] = Store[n])

CountsUnchanged ==
  \A n \in DOMAIN Store : n \in DOMAIN Store' /\ Count(Store', n) = Count(Store, n)

\* C1: in every reachable state every activity, in the database and in the
\* in-memory dictionary, has len(participants) <= max_participants.
C1_WithinCapacity ==
  WithinCapacity(ToDict(db)) /\ WithinCapacity(SAMPLE_ACTIVITIES)

\* C2: in every reachable state no participants list, of a database document or
\* of the in-memory dictionary, holds the same email twice.
C2_NoDuplicateEmail ==
  /\ \A i \in 1..Len(db) : NoDuplicates(db[i].participants)
  /\ \A n \in DOMAIN SAMPLE_ACTIVITIES : NoDuplicates(SAMPLE_ACTIVITIES[n].participants)

\* a database-backed signup that had passed the duplicate check against what it
\* fetched reached the write after the same email was stored: the set-add
\* changed nothing and the handler answered 500
C2_Witness ==
  /\ activities_collection # None
  /\ handled.op = "signup"
  /\ ~handled.dbError
  /\ response.status = 500
  /\ IsMember(Store, handled.name, handled.email)

\* C3: a signup answered while the activity exists, does not hold the email and
\* has a free place succeeds with the message naming email and activity, adds
\* exactly one participant to it and leaves every other activity as it was.
C3_FreeSignupSucceeds ==
  [][ ( /\ handled'.op = "signup"
        /\ handled'.name \in DOMAIN Store
        /\ ~IsMember(Store, handled'.name, handled'.email)
        /\ Count(Store, handled'.name) < Store[handled'.name].max_participants )
      => ( /\ response' = SignedUp(handled'.name, handled'.email)
           /\ Count(Store', handled'.name) = Count(Store, handled'.name) + 1
           /\ OthersUnchanged(handled'.name) ) ]_vars

\* C4: a signup for an email that was in the activity's participants when the
\* request arrived is answered 400 "Student is already signed up", and no
\* activity's participant count changes.
C4_DuplicateRejected ==
  [][ (handled'.op = "signup" /\ handled'.memberAtIssue)
      => ( /\ response' = HttpError(400, "Student is already signed up")
           /\ CountsUnchanged ) ]_vars

\* C5: every signup is answered by the first failing step of the chain over the
\* activities it fetched: 404 if the name is absent, else 400 already signed up
\* if the email is among the participants, else 400 full if the count has
\* reached max_participants, else 500 if the store did not change, else success.
C5_ValidationChain ==
  [][ handled'.op = "signup"
      => LET a == handled'.name
             e == handled'.email
         IN response' =
              IF a \notin DOMAIN Fetched
              THEN HttpError(404, "Activity not found")
              ELSE IF Contains(Fetched[a].participants, e)
              THEN HttpError(400, "Student is already signed up")
              ELSE IF Len(Fetched[a].participants) >= Fetched[a].max_participants
              THEN HttpError(400, "Activity is full")
              ELSE IF Store' = Store
              THEN HttpError(500, "Failed to sign up for activity")
              ELSE SignedUp(a, e) ]_vars

\* a full activity that holds the email answers "already signed up"
C5_Witness ==
  /\ activities_collection = None
  /\ handled.op = "signup"
  /\ response = HttpError(400, "Student is already signed up")
  /\ Count(SAMPLE_ACTIVITIES, handled.name)
       >= SAMPLE_ACTIVITIES[handled.name].max_participants

\* what the in-memory fallback store answers to a signup
FallbackSignup(activity_name, email) ==
  IF activity_name \notin DOMAIN SAMPLE_ACTIVITIES
  THEN HttpError(404, "Activity not found")
  ELSE IF Contains(SAMPLE_ACTIVITIES[activity_name].participants, email)
  THEN HttpError(400, "Student is already signed up")
  ELSE IF Count(SAMPLE_ACTIVITIES, activity_name)
            >= SAMPLE_ACTIVITIES[activity_name].max_participants
  THEN HttpError(400, "Activity is full")
  ELSE SignedUp(activity_name, email)

\* C6: a request during which a database call failed is answered as the
\* in-memory fallback store answers it: a listing with the in-memory
\* dictionary, a signup with the outcome of the chain over that dictionary.
C6_OutageFallsBack ==
  [][ handled'.dbError
      => ( /\ handled'.op = "list"
             => response' = [ NoResponse EXCEPT !.status = 200,
                                                !.activities = SAMPLE_ACTIVITIES ]
           /\ handled'.op = "signup"
             => response' = FallbackSignup(handled'.name, handled'.email) ) ]_vars

\* C7: every listing answered after a signup returned success shows that
\* signup's email among the participants of its activity.
C7_ListingShowsSignup ==
  handled.op = "list"
    => \A in \in SignupInputs :
         successCount[in] > 0 => IsMember(response.activities, in[1], in[2])

\* C8: a database-backed signup whose fetched activities had a free place and
\* not its email, and whose write finds the email not yet stored, succeeds and
\* adds a participant whatever the count has become since the fetch.
C8_WriteIgnoresCapacity ==
  [][ \A h \in BagToSet(suspended) :
        ( /\ activities_collection # None
          /\ suspended' = suspended (-) SetToBag({ h })
          /\ handled'.op = "signup"
          /\ ~handled'.dbError
          /\ h.name \in DOMAIN h.activities
          /\ ~Contains(h.activities[h.name].participants, h.email)
          /\ Len(h.activities[h.name].participants) < h.activities[h.name].max_participants
          /\ ~IsMember(Store, h.name, h.email) )
        => ( /\ response' = SignedUp(h.name, h.email)
             /\ Count(Store', h.name) = Count(Store, h.name) + 1 ) ]_vars

\* two signups with distinct emails have both succeeded, the second without
\* any database failure, and the chess club holds max_participants + 1
C8_Witness ==
  /\ activities_collection # None
  /\ handled.op = "signup"
  /\ handled.name = "Chess Club"
  /\ ~handled.dbError
  /\ response.status = 200
  /\ Count(Store, "Chess Club") = Store["Chess Club"].max_participants + 1
  /\ \E e \in Emails :
       /\ e # handled.email
       /\ successCount[<< "Chess Club", e >>] = 1
       /\ successCount[<< "Chess Club", handled.email >>] = 1

\* C9: with activities_collection None no activity of the in-memory dictionary
\* ever holds more than max_participants participants.
C9_FallbackNeverOverbooks ==
  activities_collection = None => WithinCapacity(SAMPLE_ACTIVITIES)

\* in fallback mode a signup has just been refused at a full activity
C9_Witness ==
  /\ phase = "running"
  /\ activities_collection = None
  /\ handled.op = "signup"
  /\ response = HttpError(400, "Activity is full")
  /\ Count(SAMPLE_ACTIVITIES, handled.name)
       = SAMPLE_ACTIVITIES[handled.name].max_participants

\* C10: no (activity, email) pair is ever answered success twice.
C10_AtMostOneSuccess ==
  \A in \in ActivityNames \X Emails : successCount[in] <= 1

\* a second signup for a pair that already succeeded raced past the duplicate
\* check (the email was not stored when it arrived) and was answered 500
C10_Witness ==
  /\ handled.op = "signup"
  /\ ~handled.memberAtIssue
  /\ ~handled.dbError
  /\ response = HttpError(500, "Failed to sign up for activity")
  /\ successCount[<< handled.name, handled.email >>] = 1

====
